---- MODULE Spec2Model ----
(***************************************************************************)
(* Wav2Note: single-note pitch detection (src/src/main.rs).                *)
(*                                                                         *)
(* main() is a straight-line pipeline: decode and normalize the samples,   *)
(* average pairs to mono, keep every 8th sample, keep the first 2 seconds, *)
(* apply a Hann window, run a forward FFT, search the lowest quarter of    *)
(* the magnitude spectrum for its maximum, convert the bin to Hertz and    *)
(* print either the note name or "out of expected range".  Each stage is   *)
(* one action; pc names the stage the run has completed or the panic that  *)
(* ended it.                                                               *)
(*                                                                         *)
(* f32 values are modelled as exact fractions [num, den]; NaN is 0/0.      *)
(* The FFT (crate rustfft) is not computed: its magnitude spectrum is any  *)
(* vector of magnitude levels 0..MaxMag, except where the input forces the *)
(* result (an all-zero input, a NaN input of length one, an empty input).  *)
(***************************************************************************)
EXTENDS Integers, Sequences, FiniteSets, TLC

VARIABLES
    encoding,                 \* spec.sample_format and spec.bits_per_sample
    channels,                 \* spec.channels (never read by main)
    sample_rate,              \* spec.sample_rate
    raw,                      \* the decoded sample words of the file
    samples,                  \* line 16
    mono_samples,             \* line 30
    downsampled_samples,      \* line 34
    downsampled_sample_rate,  \* line 35
    limited_samples,          \* line 40
    windowed_samples,         \* line 43
    fft_size,                 \* line 49
    magnitudes,               \* line 64
    max_index,                \* line 73
    dominant_frequency,       \* line 82
    note_number,              \* rounded_note_number, line 103
    printed,                  \* what lines 87-91 print
    pc

vars == <<encoding, channels, sample_rate, raw, samples, mono_samples,
          downsampled_samples, downsampled_sample_rate, limited_samples,
          windowed_samples, fft_size, magnitudes, max_index,
          dominant_frequency, note_number, printed, pc>>

---------------------------------------------------------------------------
(* Bounds of the model. *)

\* Longest raw sample sequence.
MaxLen == 114
\* Highest magnitude level a spectrum bin takes (levels 0..MaxMag).
MaxMag == 1
\* Longest spectrum handed to the peak search on its own.
MaxN == 8
\* Highest frequency, in Hz, handed to the note mapper on its own.
MaxFreq == 4100

(* Program constants. *)

\* std::i16::MAX, the divisor of line 21.
I16_MAX == 32767
\* let downsample_factor = 8;
downsample_factor == 8
\* "First 2 seconds of audio": downsampled_sample_rate * 2.
max_seconds == 2
\* fft_size / 4
search_divisor == 4
\* dominant_frequency < 20.0
min_frequency == 20
\* dominant_frequency > 4000.0
max_frequency == 4000
\* i32::MIN, what `-inf as i32` saturates to.
I32_MIN == 0 - 2147483647 - 1

Min(a, b) == IF a <= b THEN a ELSE b

---------------------------------------------------------------------------
(* f32 values as fractions. *)

F(n, d) == [num |-> n, den |-> d]
\* 0.0 / 0.0
NaN == F(0, 0)
IsNaN(x) == x.den = 0
IsZero(x) == x.den # 0 /\ x.num = 0

\* a < b and a > b of IEEE 754: false when either side is NaN.
FLess(a, b) == ~IsNaN(a) /\ ~IsNaN(b) /\ a.num * b.den < b.num * a.den
FGreater(a, b) == FLess(b, a)

\* f32::partial_cmp: None when either side is NaN.
PartialCmp(a, b) ==
    IF IsNaN(a) \/ IsNaN(b) THEN "None"
    ELSE IF a.num * b.den < b.num * a.den THEN "Less"
    ELSE IF a.num * b.den > b.num * a.den THEN "Greater"
    ELSE "Equal"

---------------------------------------------------------------------------
(* The input: what hound::WavReader hands to main. *)

Int16 == [format |-> "Int", bits |-> 16]
Int24 == [format |-> "Int", bits |-> 24]
Int32 == [format |-> "Int", bits |-> 32]
Float32 == [format |-> "Float", bits |-> 32]
Int8 == [format |-> "Int", bits |-> 8]
Encodings == {Int16, Int24, Int32, Float32, Int8}

Channels == {1, 2}

\* <8: the downsampled rate is 0.  8: the 2-second cap is 2 samples.
\* 44100 and 384000: a peak in bin 1 of 8 is inside, resp. above, the band.
Rates == {7, 8, 44100, 384000}

\* Sample words: silence, or a ramp whose values are pairwise distinct.
Patterns == {"silence", "ramp"}
Wave(p, len) == [i \in 1..len |-> IF p = "silence" THEN 0 ELSE i]

---------------------------------------------------------------------------
(* Lines 16-27: decode and normalize. *)

\* Faulty variant: every encoding of the design is decoded.
SupportedFour(enc) == enc \in {Int16, Int24, Int32, Float32}

\* The one arm of the two matches that does not panic.
Supported(enc) == enc.format = "Int" /\ enc.bits = 16

\* (s.unwrap() as f32) / std::i16::MAX as f32
NormalizeI16(s) == F(s, I16_MAX)

Normalize ==
    /\ pc = "open"
    /\ IF Supported(encoding)
       THEN /\ samples' = [i \in 1..Len(raw) |-> NormalizeI16(raw[i])]
            /\ pc' = "normalized"
       ELSE /\ samples' = samples
            /\ pc' = "panic_encoding"
    /\ UNCHANGED <<encoding, channels, sample_rate, raw, mono_samples,
                   downsampled_samples, downsampled_sample_rate,
                   limited_samples, windowed_samples, fft_size, magnitudes,
                   max_index, dominant_frequency, note_number, printed>>

---------------------------------------------------------------------------
(* Line 30: samples.chunks(2).map(|chunk| (chunk[0] + chunk[1]) / 2.0) *)

\* The number of chunks of chunks(2): the last one may hold one sample.
NumChunks(len) == (len + 1) \div 2

\* chunk[1] is out of bounds in a last chunk of one sample.
ChunkPanics(len) == len % 2 = 1

\* (chunk[0] + chunk[1]) / 2.0, both operands over the same denominator.
Average(a, b) == F(a.num + b.num, 2 * a.den)

Downmix ==
    /\ pc = "normalized"
    /\ IF ChunkPanics(Len(samples))
       THEN /\ mono_samples' = mono_samples
            /\ pc' = "panic_chunk"
       ELSE /\ mono_samples' = [i \in 1..NumChunks(Len(samples)) |->
                                   Average(samples[2 * i - 1], samples[2 * i])]
            /\ pc' = "mono"
    /\ UNCHANGED <<encoding, channels, sample_rate, raw, samples,
                   downsampled_samples, downsampled_sample_rate,
                   limited_samples, windowed_samples, fft_size, magnitudes,
                   max_index, dominant_frequency, note_number, printed>>

---------------------------------------------------------------------------
(* Lines 33-36: mono_samples.into_iter().step_by(downsample_factor) *)

\* Faulty variant: the stride starts one element late.
StepByLate(s, step) ==
    [k \in 1..(Len(s) \div step) |-> s[(k - 1) * step + 2]]

\* StepBy yields the first element, then every step-th one after it.
RECURSIVE StepBy(_, _)
StepBy(s, step) ==
    IF s = <<>> THEN <<>>
    ELSE <<Head(s)>> \o StepBy(SubSeq(s, step + 1, Len(s)), step)

\* sample_rate / downsample_factor as u32
DownsampledRate(rate) == rate \div downsample_factor

Downsample ==
    /\ pc = "mono"
    /\ downsampled_samples' = StepBy(mono_samples, downsample_factor)
    /\ downsampled_sample_rate' = DownsampledRate(sample_rate)
    /\ pc' = "downsampled"
    /\ UNCHANGED <<encoding, channels, sample_rate, raw, samples, mono_samples,
                   limited_samples, windowed_samples, fft_size, magnitudes,
                   max_index, dominant_frequency, note_number, printed>>

---------------------------------------------------------------------------
(* Lines 39-40: downsampled_samples.into_iter().take(max_samples) *)

\* (downsampled_sample_rate * 2) as usize
MaxSamples(rate) == rate * max_seconds

Take(s, n) == SubSeq(s, 1, Min(n, Len(s)))

Limit ==
    /\ pc = "downsampled"
    /\ limited_samples' = Take(downsampled_samples,
                               MaxSamples(downsampled_sample_rate))
    /\ pc' = "limited"
    /\ UNCHANGED <<encoding, channels, sample_rate, raw, samples, mono_samples,
                   downsampled_samples, downsampled_sample_rate,
                   windowed_samples, fft_size, magnitudes, max_index,
                   dominant_frequency, note_number, printed>>

---------------------------------------------------------------------------
(* Lines 43-46 and 96-98: the Hann window. *)

\* 0.5 * (1.0 - (2.0 * PI * n as f32 / (size as f32 - 1.0)).cos()), by class:
\* size = 1 divides 0.0 by 0.0; the two ends have cos = 1; in between the
\* coefficient is positive (for the sizes of this model).
hann_window(n, size) ==
    IF size = 1 THEN "NaN"
    ELSE IF n = 0 \/ n = size - 1 THEN "zero"
    ELSE "positive"

\* sample * hann_window(n, len), by class.
Windowed(sample, w) ==
    IF w = "NaN" \/ IsNaN(sample) THEN "NaN"
    ELSE IF w = "zero" \/ IsZero(sample) THEN "zero"
    ELSE "nonzero"

Window ==
    /\ pc = "limited"
    /\ windowed_samples' =
          [i \in 1..Len(limited_samples) |->
              Windowed(limited_samples[i],
                       hann_window(i - 1, Len(limited_samples)))]
    /\ pc' = "windowed"
    /\ UNCHANGED <<encoding, channels, sample_rate, raw, samples, mono_samples,
                   downsampled_samples, downsampled_sample_rate,
                   limited_samples, fft_size, magnitudes, max_index,
                   dominant_frequency, note_number, printed>>

---------------------------------------------------------------------------
(* Lines 49-64: the forward FFT and its magnitudes. *)

MagLevels == {F(m, 1) : m \in 0..MaxMag}

\* The magnitude spectra fft.process and norm() can give for an input.  A
\* plan of length 0 processes the empty buffer; a NaN sample reaches every
\* bin; zeros transform to zeros; any other input gives some finite spectrum.
Spectra(w) ==
    IF \E i \in 1..Len(w) : w[i] = "NaN"
    THEN {[i \in 1..Len(w) |-> NaN]}
    ELSE IF \A i \in 1..Len(w) : w[i] = "zero"
    THEN {[i \in 1..Len(w) |-> F(0, 1)]}
    ELSE [1..Len(w) -> MagLevels]

Fft ==
    /\ pc = "windowed"
    /\ fft_size' = Len(windowed_samples)
    /\ \E m \in Spectra(windowed_samples) : magnitudes' = m
    /\ pc' = "spectrum"
    /\ UNCHANGED <<encoding, channels, sample_rate, raw, samples, mono_samples,
                   downsampled_samples, downsampled_sample_rate,
                   limited_samples, windowed_samples, max_index,
                   dominant_frequency, note_number, printed>>

---------------------------------------------------------------------------
(* Lines 72-78: the peak search. *)

\* Faulty variant: the lower half of the bins is searched.
SearchRangeHalf(size) == size \div 2

\* let search_range = fft_size / 4;
SearchRange(size) == size \div search_divisor

\* Iterator::max_by is reduce(|x, y| match compare(&x, &y) { Greater => x,
\* _ => y }): of several equal maxima the last one is kept.  The closure
\* unwraps partial_cmp, which is None for a NaN operand.  acc and i are
\* positions in s; the index reported is that of enumerate(), from 0.
RECURSIVE MaxByFold(_, _, _)
MaxByFold(s, i, acc) ==
    IF i > Len(s) THEN [panic |-> FALSE, some |-> TRUE, index |-> acc - 1]
    ELSE LET c == PartialCmp(s[acc], s[i])
         IN  IF c = "None" THEN [panic |-> TRUE, some |-> FALSE, index |-> 0]
             ELSE MaxByFold(s, i + 1, IF c = "Greater" THEN acc ELSE i)

MaxBy(s) ==
    IF Len(s) = 0 THEN [panic |-> FALSE, some |-> FALSE, index |-> 0]
    ELSE MaxByFold(s, 2, 1)

\* .map(|(index, _)| index).unwrap_or(0)
UnwrapOr0(r) == IF r.some THEN r.index ELSE 0

PeakSearch ==
    /\ pc = "spectrum"
    /\ LET r == MaxBy(Take(magnitudes, SearchRange(fft_size)))
       IN  IF r.panic
           THEN /\ max_index' = max_index
                /\ pc' = "panic_cmp"
           ELSE /\ max_index' = UnwrapOr0(r)
                /\ pc' = "peak"
    /\ UNCHANGED <<encoding, channels, sample_rate, raw, samples, mono_samples,
                   downsampled_samples, downsampled_sample_rate,
                   limited_samples, windowed_samples, fft_size, magnitudes,
                   dominant_frequency, note_number, printed>>

---------------------------------------------------------------------------
(* Line 82: max_index as f32 * downsampled_sample_rate as f32 / fft_size as f32 *)

\* A division by 0.0 of the product 0.0 (an empty spectrum) is NaN.
DominantFrequency(index, rate, size) == F(index * rate, size)

Frequency ==
    /\ pc = "peak"
    /\ dominant_frequency' =
          DominantFrequency(max_index, downsampled_sample_rate, fft_size)
    /\ pc' = "frequency"
    /\ UNCHANGED <<encoding, channels, sample_rate, raw, samples, mono_samples,
                   downsampled_samples, downsampled_sample_rate,
                   limited_samples, windowed_samples, fft_size, magnitudes,
                   max_index, note_number, printed>>

---------------------------------------------------------------------------
(* Lines 101-113: frequency_to_note_name. *)

\* NoteThresholds[i], in mHz, is 440 * 2^((k - 69.5) / 12) rounded up, for
\* k = FirstNote + i - 1: the least frequency whose note number
\* 12 * log2(f / 440) + 69 rounds to k or more.
FirstNote == 0 - 40
NoteThresholds ==
    <<
       789, 835, 885, 938, 993, 1052, 1115, 1181,
       1251, 1326, 1405, 1488, 1577, 1670, 1770, 1875,
       1986, 2104, 2229, 2362, 2502, 2651, 2809, 2976,
       3153, 3340, 3539, 3749, 3972, 4208, 4458, 4723,
       5004, 5302, 5617, 5951, 6305, 6680, 7077, 7498,
       7944, 8416, 8916, 9446, 10008, 10603, 11234, 11902,
       12609, 13359, 14153, 14995, 15887, 16831, 17832, 18892,
       20016, 21206, 22467, 23803, 25218, 26718, 28306, 29989,
       31773, 33662, 35664, 37784, 40031, 42411, 44933, 47605,
       50436, 53435, 56612, 59978, 63545, 67323, 71327, 75568,
       80061, 84822, 89866, 95210, 100871, 106869, 113224, 119956,
       127089, 134646, 142653, 151135, 160122, 169644, 179731, 190419,
       201741, 213738, 226447, 239912, 254178, 269292, 285305, 302270,
       320244, 339287, 359462, 380837, 403482, 427475, 452893, 479824,
       508356, 538584, 570610, 604540, 640488, 678573, 718923, 761673,
       806964, 854949, 905786, 959647, 1016711, 1077168, 1141219, 1209080,
       1280975, 1357146, 1437846, 1523345, 1613928, 1709897, 1811572, 1919294,
       2033421, 2154335, 2282438, 2418159, 2561950, 2714292, 2875692, 3046689,
       3227855, 3419793, 3623144, 3838588, 4066842, 4308669, 4564876, 4836317,
       5123900, 5428583, 5751383, 6093378, 6455709, 6839585, 7246288, 7677175,
       8133683
    >>

\* (12.0 * (frequency / 440.0).log2() + 69.0).round() as i32.  The cast
\* takes NaN to 0 and -inf (frequency 0.0) to i32::MIN.  Exact from 0.789 Hz
\* to 8133 Hz, which holds the band main lets through; beyond it the end of
\* the table stands for the note number.
RoundedNoteNumber(f) ==
    IF IsNaN(f) THEN 0
    ELSE IF f.num = 0 THEN I32_MIN
    ELSE LET reached == {i \in 1..Len(NoteThresholds) :
                           NoteThresholds[i] * f.den <= f.num * 1000}
         IN  FirstNote - 1 + Cardinality(reached)

\* a % b and a / b of Rust's i32: the quotient is truncated toward zero and
\* the remainder takes the sign of a.
RemTrunc(a, b) ==
    LET m == a % b IN IF m = 0 \/ a >= 0 THEN m ELSE m - b
DivTrunc(a, b) == (a - RemTrunc(a, b)) \div b

note_names == <<"C", "C#", "D", "D#", "E", "F", "F#", "G", "G#", "A", "A#", "B">>

\* let note_index = rounded_note_number % 12;
NoteIndex(n) == RemTrunc(n, 12)
\* Faulty variant: the octave without the MIDI adjustment.
OctaveUnadjusted(n) == DivTrunc(n, 12)
\* let octave = (rounded_note_number / 12) - 1;
Octave(n) == DivTrunc(n, 12) - 1

\* note_names[note_index as usize]: a negative index, cast to usize, is out
\* of the array's bounds and the lookup panics.
IndexPanics(n) == ~(NoteIndex(n) \in 0..(Len(note_names) - 1))

NoOutput == [kind |-> "none", letter |-> "", octave |-> 0]

frequency_to_note_name(n) ==
    [kind |-> "note", letter |-> note_names[NoteIndex(n) + 1], octave |-> Octave(n)]

---------------------------------------------------------------------------
(* Lines 86-92: the range filter and the report. *)

\* Faulty variant: only the upper end of the band is checked.
OutOfRangeHighOnly(f) == FGreater(f, F(max_frequency, 1))

\* dominant_frequency < 20.0 || dominant_frequency > 4000.0
OutOfRange(f) ==
    FLess(f, F(min_frequency, 1)) \/ FGreater(f, F(max_frequency, 1))

Report ==
    /\ pc = "frequency"
    /\ IF OutOfRange(dominant_frequency)
       THEN /\ printed' = [kind |-> "out_of_range", letter |-> "", octave |-> 0]
            /\ note_number' = note_number
            /\ pc' = "out_of_range"
       ELSE LET n == RoundedNoteNumber(dominant_frequency)
            IN  /\ note_number' = n
                /\ IF IndexPanics(n)
                   THEN /\ printed' = printed
                        /\ pc' = "panic_index"
                   ELSE /\ printed' = frequency_to_note_name(n)
                        /\ pc' = "note"
    /\ UNCHANGED <<encoding, channels, sample_rate, raw, samples, mono_samples,
                   downsampled_samples, downsampled_sample_rate,
                   limited_samples, windowed_samples, fft_size, magnitudes,
                   max_index, dominant_frequency>>

---------------------------------------------------------------------------
(* The run of main on a file. *)

Fresh ==
    /\ samples = <<>>
    /\ mono_samples = <<>>
    /\ downsampled_samples = <<>>
    /\ limited_samples = <<>>
    /\ windowed_samples = <<>>
    /\ max_index = 0
    /\ note_number = 0
    /\ printed = NoOutput

Init ==
    /\ encoding \in Encodings
    /\ channels \in Channels
    /\ sample_rate \in Rates
    /\ raw \in {Wave(p, len) : p \in Patterns, len \in 0..MaxLen}
    /\ Fresh
    /\ downsampled_sample_rate = 0
    /\ fft_size = 0
    /\ magnitudes = <<>>
    /\ dominant_frequency = F(0, 1)
    /\ pc = "open"

Next ==
    \/ Normalize
    \/ Downmix
    \/ Downsample
    \/ Limit
    \/ Window
    \/ Fft
    \/ PeakSearch
    \/ Frequency
    \/ Report

Spec == Init /\ [][Next]_vars

(* The peak search of lines 72-78 on every spectrum of up to MaxN bins. *)

InitPeak ==
    /\ encoding = Int16
    /\ channels = 2
    /\ sample_rate = 44100
    /\ raw = <<>>
    /\ Fresh
    /\ downsampled_sample_rate = DownsampledRate(44100)
    /\ magnitudes \in UNION {[1..n -> MagLevels \cup {NaN}] : n \in 0..MaxN}
    /\ fft_size = Len(magnitudes)
    /\ dominant_frequency = F(0, 1)
    /\ pc = "spectrum"

NextPeak == PeakSearch

SpecPeak == InitPeak /\ [][NextPeak]_vars

(* The range filter and the note mapper of lines 86-113 on every whole
   frequency up to MaxFreq Hz, and on NaN. *)

InitNote ==
    /\ encoding = Int16
    /\ channels = 2
    /\ sample_rate = 44100
    /\ raw = <<>>
    /\ Fresh
    /\ downsampled_sample_rate = DownsampledRate(44100)
    /\ fft_size = 0
    /\ magnitudes = <<>>
    /\ dominant_frequency \in {NaN} \cup {F(f, 1) : f \in 0..MaxFreq}
    /\ pc = "frequency"

NextNote == Report

SpecNote == InitNote /\ [][NextNote]_vars

---------------------------------------------------------------------------
(* Properties. *)

\* The stages a run has behind it.
DownmixTried == pc \notin {"open", "panic_encoding", "normalized"}
LimitDone == pc \in {"limited", "windowed", "spectrum", "peak", "panic_cmp",
                     "frequency", "out_of_range", "note", "panic_index"}
PeakReturned == pc \in {"peak", "frequency", "out_of_range", "note",
                        "panic_index"}
PeakTried == PeakReturned \/ pc = "panic_cmp"
ReportTried == pc \in {"out_of_range", "note", "panic_index"}

\* The bins the estimator is to search: [0, floor(N / 4)), as positions.
Searched == 1..(fft_size \div 4)
\* The searched bins no searched bin exceeds.
Maxima == {i \in Searched :
             \A k \in Searched : ~FGreater(magnitudes[k], magnitudes[i])}
Lowest(S) == CHOOSE i \in S : \A j \in S : i <= j

\* C1: when the maximum of the searched range occurs at two or more bins,
\* the peak search returns the lowest of them.
PeakTieBreakLowest ==
    (PeakReturned /\ Cardinality(Maxima) >= 2)
        => max_index = Lowest(Maxima) - 1

\* C2: a stream with no raw samples, or none left after downmixing,
\* decimation and the duration cap, never reaches the report: neither a
\* frequency nor a note is printed.
EmptyInputFatal ==
    (raw = <<>> \/ (LimitDone /\ limited_samples = <<>>))
        => (printed = NoOutput /\ pc \notin {"out_of_range", "note"})

\* The sum of frame i of the interleaved samples, as a numerator.
RECURSIVE FrameSum(_, _)
FrameSum(i, c) ==
    IF c = 0 THEN 0
    ELSE samples[(i - 1) * channels + c].num + FrameSum(i, c - 1)

\* C3: for a stream of C channels the downmix does not fail and yields
\* floor(len / C) mono samples, each the mean of one complete frame.
ChannelReducerTruncates ==
    DownmixTried =>
        /\ pc # "panic_chunk"
        /\ Len(mono_samples) = Len(samples) \div channels
        /\ \A i \in 1..Len(mono_samples) :
              mono_samples[i].num * I16_MAX * channels
                  = FrameSum(i, channels) * mono_samples[i].den

CeilDiv(a, b) == (a + b - 1) \div b

\* C5: the effective rate is R div 8 and the decimated, capped sequence is
\* the mono samples at indices 0, 8, 16, ... cut to its first
\* min(ceil(L / 8), (R div 8) * 2) elements, in order.
DecimatorOutput ==
    LimitDone =>
        /\ downsampled_sample_rate = sample_rate \div 8
        /\ Len(limited_samples)
              = Min(CeilDiv(Len(mono_samples), 8), (sample_rate \div 8) * 2)
        /\ \A k \in 1..Len(limited_samples) :
              limited_samples[k] = mono_samples[(k - 1) * 8 + 1]

\* The cap cuts a decimated sequence of three distinct samples to two.
DecimatorWitness ==
    /\ pc = "limited"
    /\ sample_rate = 8
    /\ Len(mono_samples) >= 17
    /\ Len(limited_samples) = 2
    /\ limited_samples[1] # limited_samples[2]

\* 20 <= f <= 4000
InBand(f) ==
    /\ ~IsNaN(f)
    /\ 20 * f.den <= f.num
    /\ f.num <= 4000 * f.den

\* C6: a note is reported exactly when 20 <= f <= 4000, out-of-range
\* exactly when f is below 20 or above 4000, and never both.
RangeRejection ==
    ReportTried =>
        /\ printed.kind = "note" <=> InBand(dominant_frequency)
        /\ printed.kind = "out_of_range" <=> ~InBand(dominant_frequency)

\* C7: a reported note has the letter at ((n mod 12) + 12) mod 12 of the
\* chromatic table and the octave floor(n / 12) - 1; 69 is A4, 60 is C4.
NoteMappingMidi ==
    pc = "note" =>
        /\ printed.letter = note_names[(((note_number % 12) + 12) % 12) + 1]
        /\ printed.octave = (note_number \div 12) - 1
        /\ note_number = 69 => (printed.letter = "A" /\ printed.octave = 4)
        /\ note_number = 60 => (printed.letter = "C" /\ printed.octave = 4)

\* 440 Hz is reported as A4.
NoteMappingWitness ==
    /\ pc = "note"
    /\ dominant_frequency = F(440, 1)
    /\ note_number = 69
    /\ printed = [kind |-> "note", letter |-> "A", octave |-> 4]

PeakWithinRange ==
    /\ (PeakTried /\ Searched = {}) => (pc = "peak" /\ max_index = 0)
    /\ (PeakReturned /\ Searched # {}) =>
          /\ max_index < fft_size \div 4
          /\ \A k \in Searched :
                ~FGreater(magnitudes[k], magnitudes[max_index + 1])

\* Bin 1 of two searched bins is the strict maximum and is returned.
PeakWitness ==
    /\ pc = "peak"
    /\ fft_size = 8
    /\ FGreater(magnitudes[2], magnitudes[1])
    /\ max_index = 1

\* C10: every call of frequency_to_note_name has a note number whose
\* truncating remainder by 12 is in 0..11: the table lookup never panics.
NoteIndexInBounds ==
    /\ pc # "panic_index"
    /\ pc = "note" =>
          LET r == IF note_number >= 0 THEN note_number % 12
                   ELSE 0 - ((0 - note_number) % 12)
          IN  r \in 0..11

\* The lowest note the band lets through: 20 Hz, note number 15.
NoteIndexWitness ==
    /\ pc = "note"
    /\ dominant_frequency = F(20, 1)
    /\ note_number = 15
    /\ printed.letter = "D#"

====
